---- MODULE Spec2Model ----
(***************************************************************************)
(* A model of the dialogue engine: the StoryManager (the Store), the       *)
(* GameOrchestrator (the Coordinator), the NPCAgent and Text_Generator     *)
(* it drives, and the JSON save file.                                      *)
(*                                                                         *)
(* Python strings on which the code works character by character           *)
(* (upper(), strip(), startswith()) are sequences of one-character         *)
(* strings; other strings are sequences of pieces whose concatenation is   *)
(* the Python string, or plain strings where the code only compares them.  *)
(***************************************************************************)
EXTENDS Integers, Sequences, FiniteSets, TLC

VARIABLES
    npcs,                   \* GameOrchestrator.npcs: name -> NPCAgent
    npc_memories,           \* StoryManager.npc_memories: name -> NPCMemory
    aliased,                \* names whose Store memory IS the agent's memory object
    story_state,            \* StoryManager.story_state
    conversation_history,   \* StoryManager.conversation_history
    settings,               \* GameOrchestrator.settings
    sm_settings,            \* StoryManager.settings
    settings_shared,        \* the two settings are one object
    clock,                  \* what datetime.now() returns
    disk,                   \* path -> file
    result,                 \* the last call: operation, arguments, outcome
    recorded,               \* every exchange given to the log since it was last replaced
    caller,                 \* the lists the caller gave to the setters, and whether
                            \* the StoryState holds those very list objects
    writers                 \* the record_conversation calls in progress in each thread

vars == <<npcs, npc_memories, aliased, story_state, conversation_history,
          settings, sm_settings, settings_shared, clock, disk, result, recorded,
          caller, writers>>

-----------------------------------------------------------------------------
(* Bounds of the model *)

MaxCalls == 103     \* exchanges fed to one log in the long-log specifications
FreeCalls == 3      \* of which the first ones draw their arguments freely
MaxLog == 2         \* exchanges fed to one log in the Coordinator specifications
MaxMemories == 1    \* entries in one character's memory
MaxClock == 1       \* moments after the first that the clock may reach
MaxSaved == 1       \* exchanges fed to one log in the save and load specification
MaxPlot == 4        \* add_plot_point calls on one Store
MaxDigested == 3    \* exchanges in the log a summary is asked of
MaxLastN == 4       \* the largest last_n asked for
MaxList == 2        \* items in a list the caller shares with the Store
MaxWrites == 2      \* record_conversation calls of one thread

(* Program constants *)

HistoryCap == 100   \* record_conversation keeps the last 100 exchanges
PreviewLen == 50    \* get_conversation_summary shows the first 50 characters

-----------------------------------------------------------------------------
(* Values *)

Str(s) == <<"str", s>>
EnumV(n) == <<"enum", n>>
NoneV == <<"none", "">>
Absent == <<"absent", "">>

EmptyMap == [k \in {} |-> Absent]

Min(a, b) == IF a < b THEN a ELSE b

(* datetime: seconds and microseconds; the moments of the model in order are
   0 s, 0 s + 1 us, 1 s, 1 s + 1 us, ... *)
Times == {[sec |-> t \div 2, usec |-> t % 2] : t \in 0..MaxClock}

Later(a, b) == a.sec > b.sec \/ (a.sec = b.sec /\ a.usec > b.usec)

Epoch == [sec |-> 0, usec |-> 0]

(* datetime.isoformat(): the fraction is left out when it is zero *)
IsoFormat(dt) == IF dt.usec = 0 THEN <<dt.sec>> ELSE <<dt.sec, dt.usec>>

(* the datetime a timestamp field is validated to when it is given a string *)
ParseDatetime(s) == [sec |-> s[1], usec |-> IF Len(s) >= 2 THEN s[2] ELSE 0]

-----------------------------------------------------------------------------
(* models.py *)

LowerLetters == <<"a", "b", "c", "d", "e", "f", "g", "h", "i", "j", "k", "l", "m",
                  "n", "o", "p", "q", "r", "s", "t", "u", "v", "w", "x", "y", "z">>
UpperLetters == <<"A", "B", "C", "D", "E", "F", "G", "H", "I", "J", "K", "L", "M",
                  "N", "O", "P", "Q", "R", "S", "T", "U", "V", "W", "X", "Y", "Z">>

UpperChar(c) ==
    IF \E i \in DOMAIN LowerLetters : LowerLetters[i] = c
    THEN UpperLetters[CHOOSE i \in DOMAIN LowerLetters : LowerLetters[i] = c]
    ELSE c

(* str.upper() *)
Upper(s) == [i \in DOMAIN s |-> UpperChar(s[i])]

(* class ActionType(str, Enum): member name and value *)
ActionType == {
    [name |-> <<"D", "I", "A", "L", "O", "G", "U", "E">>,
     value |-> <<"d", "i", "a", "l", "o", "g", "u", "e">>],
    [name |-> <<"M", "O", "V", "E", "M", "E", "N", "T">>,
     value |-> <<"m", "o", "v", "e", "m", "e", "n", "t">>],
    [name |-> <<"E", "M", "O", "T", "I", "O", "N">>,
     value |-> <<"e", "m", "o", "t", "i", "o", "n">>],
    [name |-> <<"I", "N", "T", "E", "R", "A", "C", "T", "I", "O", "N">>,
     value |-> <<"i", "n", "t", "e", "r", "a", "c", "t", "i", "o", "n">>],
    [name |-> <<"S", "T", "O", "R", "Y", "_", "E", "V", "E", "N", "T">>,
     value |-> <<"s", "t", "o", "r", "y", "_", "e", "v", "e", "n", "t">>] }

ActionTypeNamed(n) == CHOOSE m \in ActionType : m.name = n

DIALOGUE == ActionTypeNamed(<<"D", "I", "A", "L", "O", "G", "U", "E">>)
INTERACTION == ActionTypeNamed(<<"I", "N", "T", "E", "R", "A", "C", "T", "I", "O", "N">>)

(* class StoryState: the defaults, timestamp = datetime.now() *)
StoryState(now) ==
    [plot_points |-> <<>>, completed_events |-> <<>>, active_goals |-> <<>>,
     world_state |-> EmptyMap, timestamp |-> now]

(* class NPCMemory *)
NPCMemory(name) ==
    [npc_name |-> name, memories |-> <<>>, important_events |-> <<>>,
     player_interactions |-> 0]

(* class GameSettings: the defaults; temperature in tenths *)
GameSettings ==
    [llm_model |-> NoneV, temperature |-> 8, max_tokens |-> 500,
     story_style |-> "adventure", difficulty |-> "medium",
     custom_instructions |-> NoneV]

(* a metadata dict: the keys the program writes; None is a dict that is not there *)
Meta(e, m, err) == [isdict |-> TRUE, emotional_state |-> e, model |-> m, error |-> err]
EmptyMeta == Meta(Absent, Absent, Absent)
NoMeta == [isdict |-> FALSE, emotional_state |-> Absent, model |-> Absent,
           error |-> Absent]

-----------------------------------------------------------------------------
(* The save file *)

Sections == {"story_state", "npc_memories", "conversation_history", "settings"}

NoFile ==
    [status |-> "missing", sections |-> {}, story_state |-> <<>>,
     npc_memories |-> EmptyMap, conversation_history |-> <<>>, settings |-> <<>>]

(* what a save that raised while writing leaves behind: cut-off JSON *)
CorruptFile == [NoFile EXCEPT !.status = "corrupt"]

Paths == {"save.json", "old.json"}

-----------------------------------------------------------------------------
(* StoryManager *)

NoResult == [op |-> "init", raised |-> ""]

(* the caller has given no list yet *)
NoCaller ==
    [plot_points |-> <<>>, active_goals |-> <<>>,
     plot_shared |-> FALSE, goals_shared |-> FALSE]

(* the threads that may call the Store, none of them in a call *)
Writers == {"w1", "w2"}

Idle == [pc |-> "idle", slice |-> <<>>, done |-> 0]

NoWriters == [calls |-> [w \in Writers |-> Idle], overlapped |-> FALSE]

Init ==
    /\ npcs = EmptyMap
    /\ npc_memories = EmptyMap
    /\ aliased = {}
    /\ story_state = StoryState(Epoch)
    /\ conversation_history = <<>>
    /\ settings = GameSettings
    /\ sm_settings = GameSettings
    /\ settings_shared = TRUE
    /\ clock = Epoch
    /\ disk = [p \in Paths |-> NoFile]
    /\ result = NoResult
    /\ recorded = <<>>
    /\ caller = NoCaller
    /\ writers = NoWriters

Exchange(now, player_input, npc_name, npc_response, metadata) ==
    [timestamp |-> IsoFormat(now), player_input |-> player_input,
     npc_name |-> npc_name, npc_response |-> npc_response,
     metadata |-> IF metadata.isdict /\ metadata # EmptyMeta THEN metadata ELSE EmptyMeta]

(* a faulty variant: keeps the first 100 exchanges *)
KeepTailHead(h) == IF Len(h) > HistoryCap THEN SubSeq(h, 1, HistoryCap) ELSE h

(* a faulty variant: the cap is never applied *)
KeepTailNever(h) == h

(* lines 127-128: keep the last 100 conversations *)
KeepTail(h) ==
    IF Len(h) > HistoryCap THEN SubSeq(h, Len(h) - HistoryCap + 1, Len(h)) ELSE h

(* record_conversation: the log after the call *)
Recorded(h, now, player_input, npc_name, npc_response, metadata) ==
    KeepTail(Append(h, Exchange(now, player_input, npc_name, npc_response, metadata)))

(* a direct call of StoryManager.record_conversation *)
RecordConversation(player_input, npc_name, npc_response, metadata) ==
    /\ conversation_history' =
           Recorded(conversation_history, clock, player_input, npc_name,
                    npc_response, metadata)
    /\ recorded' = Append(recorded,
                          Exchange(clock, player_input, npc_name, npc_response, metadata))
    /\ result' = [op |-> "record_conversation", raised |-> ""]
    /\ UNCHANGED <<npcs, npc_memories, aliased, story_state, settings, sm_settings,
                   settings_shared, clock, disk, caller, writers>>

(* record_conversation step by step, as a thread runs it while other threads
   may run theirs: nothing in the Store keeps them apart *)

InCall(w) == writers.calls[w].pc # "idle"

(* lines 117-124: the exchange is built and appended to the list the Store
   holds at that moment *)
AppendStep(w, player_input, npc_name, npc_response, metadata) ==
    LET exchange == Exchange(clock, player_input, npc_name, npc_response, metadata)
    IN /\ ~InCall(w)
       /\ conversation_history' = Append(conversation_history, exchange)
       /\ recorded' = Append(recorded, exchange)
       /\ writers' = [calls |-> [writers.calls EXCEPT ![w].pc = "check"],
                      overlapped |-> \/ writers.overlapped
                                     \/ \E v \in Writers \ {w} : InCall(v)]
       /\ result' = [op |-> "record_conversation", raised |-> ""]
       /\ UNCHANGED <<npcs, npc_memories, aliased, story_state, settings,
                      sm_settings, settings_shared, clock, disk, caller>>

(* line 127: the length is compared with 100; the call returns when it is
   not greater *)
CheckStep(w) ==
    /\ writers.calls[w].pc = "check"
    /\ writers' = [writers EXCEPT
                       !.calls[w].pc = IF Len(conversation_history) > HistoryCap
                                       THEN "slice" ELSE "idle",
                       !.calls[w].done = IF Len(conversation_history) > HistoryCap
                                         THEN @ ELSE @ + 1]
    /\ UNCHANGED <<npcs, npc_memories, aliased, story_state, conversation_history,
                   settings, sm_settings, settings_shared, clock, disk, result,
                   recorded, caller>>

(* a faulty variant: the slice is the first 100 exchanges *)
SliceStepHead(w) ==
    /\ writers.calls[w].pc = "slice"
    /\ writers' = [writers EXCEPT
                       !.calls[w].pc = "assign",
                       !.calls[w].slice = SubSeq(conversation_history, 1,
                                                 Min(HistoryCap,
                                                     Len(conversation_history)))]
    /\ UNCHANGED <<npcs, npc_memories, aliased, story_state, conversation_history,
                   settings, sm_settings, settings_shared, clock, disk, result,
                   recorded, caller>>

(* line 128, right-hand side: conversation_history[-100:] is a new list *)
SliceStep(w) ==
    /\ writers.calls[w].pc = "slice"
    /\ writers' = [writers EXCEPT
                       !.calls[w].pc = "assign",
                       !.calls[w].slice =
                           SubSeq(conversation_history,
                                  IF Len(conversation_history) > HistoryCap
                                  THEN Len(conversation_history) - HistoryCap + 1
                                  ELSE 1,
                                  Len(conversation_history))]
    /\ UNCHANGED <<npcs, npc_memories, aliased, story_state, conversation_history,
                   settings, sm_settings, settings_shared, clock, disk, result,
                   recorded, caller>>

(* line 128, assignment: the Store holds the new list; the call returns *)
AssignStep(w) ==
    /\ writers.calls[w].pc = "assign"
    /\ conversation_history' = writers.calls[w].slice
    /\ writers' = [writers EXCEPT
                       !.calls[w].pc = "idle",
                       !.calls[w].slice = <<>>,
                       !.calls[w].done = @ + 1]
    /\ UNCHANGED <<npcs, npc_memories, aliased, story_state, settings,
                   sm_settings, settings_shared, clock, disk, result, recorded,
                   caller>>

(* s[:n] *)
Take(s, n) == SubSeq(s, 1, Min(n, Len(s)))

(* list[-n:] for n >= 0: -0 is 0, so list[-0:] is the whole list *)
TailSlice(list, n) ==
    IF n = 0 \/ n >= Len(list) THEN list
    ELSE SubSeq(list, Len(list) - n + 1, Len(list))

(* lines 144-145: the filter is applied when npc_name is truthy, that is
   neither None nor "" *)
Filtered(history, npc_name) ==
    IF npc_name = NoneV \/ npc_name = Str("")
    THEN history
    ELSE SelectSeq(history, LAMBDA c : c.npc_name = npc_name[2])

(* lines 154-155: the two lines of one conversation, without the fixed text *)
Digest(conv) ==
    [player_input |-> Take(conv.player_input, PreviewLen),
     npc_name |-> conv.npc_name,
     npc_response |-> Take(conv.npc_response, PreviewLen)]

(* the value get_conversation_summary returns: "No recent conversations." or
   the heading followed by the lines of each conversation *)
Summary(history, npc_name, last_n) ==
    LET conversations == TailSlice(Filtered(history, npc_name), last_n)
    IN [none |-> conversations = <<>>,
        digests |-> [i \in DOMAIN conversations |-> Digest(conversations[i])]]

(* StoryManager.get_conversation_summary *)
GetConversationSummary(npc_name, last_n) ==
    /\ result' = [op |-> "get_conversation_summary", npc_name |-> npc_name,
                  last_n |-> last_n, raised |-> "",
                  ret |-> Summary(conversation_history, npc_name, last_n)]
    /\ UNCHANGED <<npcs, npc_memories, aliased, story_state, conversation_history,
                   settings, sm_settings, settings_shared, clock, disk, recorded, caller, writers>>

-----------------------------------------------------------------------------
(* agents/llms.py *)

(* what the chat-completion client does with one request *)
Content(t) == [kind |-> "content", text |-> t]
NullContent == [kind |-> "null", text |-> <<>>]
Raises == [kind |-> "raise", text |-> <<>>]

(* a Python value of type str | None *)
PyStr(t) == [none |-> FALSE, text |-> t]
PyNone == [none |-> TRUE, text |-> <<>>]

Truthy(r) == ~r.none /\ Len(r.text) > 0

(* Text_Generator.generate_text: the message content, "" when the client raised *)
GenerateText(outcome) ==
    CASE outcome.kind = "raise" -> PyStr(<<>>)
      [] outcome.kind = "null" -> PyNone
      [] OTHER -> PyStr(outcome.text)

-----------------------------------------------------------------------------
(* agents/npc_agent.py *)

Whitespace == {" ", "\t", "\n"}

RECURSIVE LStrip(_)
LStrip(t) == IF t # <<>> /\ Head(t) \in Whitespace THEN LStrip(Tail(t)) ELSE t

RECURSIVE RStrip(_)
RStrip(t) ==
    IF t # <<>> /\ t[Len(t)] \in Whitespace THEN RStrip(SubSeq(t, 1, Len(t) - 1)) ELSE t

(* str.strip() *)
Strip(t) == RStrip(LStrip(t))

StartsWith(t, c) == Len(t) >= 1 /\ t[1] = c
EndsWith(t, c) == Len(t) >= 1 /\ t[Len(t)] = c

(* lines 155-158: remove quotes if the LLM adds them *)
Unquote(t) ==
    IF \/ StartsWith(t, "\"") /\ EndsWith(t, "\"")
       \/ StartsWith(t, "'") /\ EndsWith(t, "'")
    THEN SubSeq(t, 2, Len(t) - 1)
    ELSE t

(* NPCAgent.__init__ *)
NPCAgent(name, model) ==
    [personality |-> [name |-> name, emotional_state |-> "neutral"],
     model |-> model, memory |-> NPCMemory(name)]

(* line 187: the line of the except branch of generate_dialogue *)
FallbackDialogue == <<"...I need a moment to collect my thoughts.">>

(* line 270: the line of the except branch of generate_action *)
FallbackAction(agent) == <<agent.personality.name, " stands quietly.">>

ActionResponse(action_type, content, npc_name, metadata) ==
    [action_type |-> action_type, content |-> content, npc_name |-> npc_name,
     metadata |-> metadata]

(* a faulty variant: the exchange is remembered but not counted *)
GenerateDialogueUncounted(agent, player_input, state, outcome) ==
    LET response == GenerateText(outcome)
        dialogue_text == Unquote(IF Truthy(response) THEN response.text
                                 ELSE <<".", ".", ".">>)
        entry == [type |-> <<"d", "i", "a", "l", "o", "g", "u", "e">>,
                  player_input |-> player_input, npc_response |-> dialogue_text,
                  timestamp |-> IsoFormat(state.timestamp)]
    IN [memory |-> [agent.memory EXCEPT !.memories = Append(@, entry)],
        response |-> ActionResponse(DIALOGUE, dialogue_text, agent.personality.name,
                         Meta(Str(agent.personality.emotional_state), agent.model,
                              Absent))]

(* NPCAgent.generate_dialogue: the agent's memory afterwards and the response.
   No statement of its try block raises: generate_text returns "" when the
   client raised, and None and "" both become "...". *)
GenerateDialogue(agent, player_input, state, outcome) ==
    LET response == GenerateText(outcome)
        dialogue_text == Unquote(IF Truthy(response) THEN response.text
                                 ELSE <<".", ".", ".">>)
        entry == [type |-> <<"d", "i", "a", "l", "o", "g", "u", "e">>,
                  player_input |-> player_input, npc_response |-> dialogue_text,
                  timestamp |-> IsoFormat(state.timestamp)]
    IN [memory |-> [agent.memory EXCEPT
                        !.memories = Append(@, entry),
                        !.player_interactions = @ + 1],
        response |-> ActionResponse(DIALOGUE, dialogue_text, agent.personality.name,
                         Meta(Str(agent.personality.emotional_state), agent.model,
                              Absent))]

(* NPCAgent.generate_action: None.strip() raises inside the try block, which
   the except branch turns into the fallback line; "" is stripped and kept. *)
GenerateAction(agent, context, state, action_type, outcome) ==
    LET response == GenerateText(outcome)
        action_text == Strip(response.text)
        entry == [type |-> action_type.value, context |-> context, action |-> action_text,
                  timestamp |-> IsoFormat(state.timestamp)]
    IN IF response.none
       THEN [memory |-> agent.memory,
             response |-> ActionResponse(action_type, FallbackAction(agent),
                              agent.personality.name,
                              Meta(Absent, Absent,
                                   Str("'NoneType' object has no attribute 'strip'")))]
       ELSE [memory |-> [agent.memory EXCEPT !.memories = Append(@, entry)],
             response |-> ActionResponse(action_type, action_text,
                              agent.personality.name,
                              Meta(Absent, agent.model, Absent))]

-----------------------------------------------------------------------------
(* orchestrator/game_orchestrator.py *)

HasNpc(name) == name \in DOMAIN npcs

(* d[k] = v on a dict *)
Put(d, k, v) == [x \in DOMAIN d \cup {k} |-> IF x = k THEN v ELSE d[x]]

(* del d[k] *)
Del(d, k) == [x \in DOMAIN d \ {k} |-> d[x]]

(* the agent's memory object is written; the Store sees it when it holds
   that same object *)
MemoryWritten(name, memory) ==
    /\ npcs' = [npcs EXCEPT ![name].memory = memory]
    /\ npc_memories' = IF name \in aliased
                       THEN [npc_memories EXCEPT ![name] = memory]
                       ELSE npc_memories

(* an argument the call does not give *)
Omitted == <<"omitted", "">>

(* add_npc: model is a parameter without a default, so a call that leaves it
   out raises TypeError; NPCAgent.__init__ reads model.value, which only an
   enumeration member has *)
AddNpc(name, model) ==
    LET m == IF model # NoneV THEN model ELSE settings.llm_model
    IN IF model = Omitted
       THEN /\ result' = [op |-> "add_npc", npc_name |-> name, raised |-> "TypeError"]
            /\ UNCHANGED <<npcs, npc_memories, aliased, story_state,
                           conversation_history, settings, sm_settings,
                           settings_shared, clock, disk, recorded, caller, writers>>
       ELSE IF m[1] = "enum"
       THEN /\ npcs' = Put(npcs, name, NPCAgent(name, m))
            /\ npc_memories' = Put(npc_memories, name, NPCMemory(name))
            /\ aliased' = aliased \cup {name}
            /\ result' = [op |-> "add_npc", npc_name |-> name, raised |-> ""]
            /\ UNCHANGED <<story_state, conversation_history, settings, sm_settings,
                           settings_shared, clock, disk, recorded, caller, writers>>
       ELSE /\ result' = [op |-> "add_npc", npc_name |-> name,
                          raised |-> "AttributeError"]
            /\ UNCHANGED <<npcs, npc_memories, aliased, story_state,
                           conversation_history, settings, sm_settings,
                           settings_shared, clock, disk, recorded, caller, writers>>

(* a faulty variant: the character's memory leaves the Store with the agent *)
RemoveNpcForgets(name) ==
    /\ npcs' = IF HasNpc(name) THEN Del(npcs, name) ELSE npcs
    /\ npc_memories' = IF name \in DOMAIN npc_memories
                       THEN Del(npc_memories, name) ELSE npc_memories
    /\ aliased' = aliased \ {name}
    /\ result' = [op |-> "remove_npc", npc_name |-> name, raised |-> ""]
    /\ UNCHANGED <<story_state, conversation_history, settings,
                   sm_settings, settings_shared, clock, disk, recorded, caller, writers>>

(* remove_npc *)
RemoveNpc(name) ==
    /\ npcs' = IF HasNpc(name) THEN Del(npcs, name) ELSE npcs
    /\ aliased' = aliased \ {name}
    /\ result' = [op |-> "remove_npc", npc_name |-> name, raised |-> ""]
    /\ UNCHANGED <<npc_memories, story_state, conversation_history, settings,
                   sm_settings, settings_shared, clock, disk, recorded, caller, writers>>

DialogueExchange(player_input, npc_response, npc_name, emotional_state) ==
    [player_input |-> player_input, npc_response |-> npc_response,
     npc_name |-> npc_name, emotional_state |-> emotional_state]

(* a faulty variant: the miss is recorded in the log *)
ProcessMissRecorded(player_input, npc_name) ==
    /\ result' = [op |-> "process_player_input", player_input |-> player_input,
                  npc_name |-> npc_name, hit |-> FALSE, llm_called |-> FALSE,
                  raised |-> "",
                  ret |-> DialogueExchange(player_input,
                              <<"I don't know who ", npc_name, " is...">>,
                              "System", NoneV)]
    /\ conversation_history' =
           Recorded(conversation_history, clock, player_input, npc_name,
                    <<"I don't know who ", npc_name, " is...">>, NoMeta)
    /\ UNCHANGED <<npcs, npc_memories, aliased, story_state,
                   settings, sm_settings, settings_shared, clock, disk, recorded, caller, writers>>

(* process_player_input, lines 117-123: no such character *)
ProcessMiss(player_input, npc_name) ==
    /\ result' = [op |-> "process_player_input", player_input |-> player_input,
                  npc_name |-> npc_name, hit |-> FALSE, llm_called |-> FALSE,
                  raised |-> "",
                  ret |-> DialogueExchange(player_input,
                              <<"I don't know who ", npc_name, " is...">>,
                              "System", NoneV)]
    /\ UNCHANGED <<npcs, npc_memories, aliased, story_state, conversation_history,
                   settings, sm_settings, settings_shared, clock, disk, recorded, caller, writers>>

(* process_player_input, lines 125-155: the character is in the roster *)
ProcessHit(player_input, npc_name, outcome) ==
    LET state == [story_state EXCEPT !.timestamp = clock]
        agent == npcs[npc_name]
        gen == GenerateDialogue(agent, player_input, state, outcome)
    IN /\ story_state' = state
       /\ npcs' = [npcs EXCEPT ![npc_name].memory = gen.memory]
       /\ conversation_history' =
              Recorded(conversation_history, clock, player_input, npc_name,
                       gen.response.content, gen.response.metadata)
       /\ recorded' = Append(recorded,
                             Exchange(clock, player_input, npc_name,
                                      gen.response.content, gen.response.metadata))
       /\ npc_memories' = Put(npc_memories, npc_name, gen.memory)
       /\ aliased' = aliased \cup {npc_name}
       /\ result' = [op |-> "process_player_input", player_input |-> player_input,
                     npc_name |-> npc_name, hit |-> TRUE, llm_called |-> TRUE,
                     outcome |-> outcome, raised |-> "",
                     ret |-> DialogueExchange(player_input, gen.response.content,
                                 npc_name, Str(agent.personality.emotional_state))]
       /\ UNCHANGED <<settings, sm_settings, settings_shared, clock, disk, caller, writers>>

(* GameOrchestrator.process_player_input *)
ProcessPlayerInput(player_input, npc_name, outcome) ==
    IF HasNpc(npc_name)
    THEN ProcessHit(player_input, npc_name, outcome)
    ELSE ProcessMiss(player_input, npc_name)

(* ActionResponse(action_type=<str>): the field is validated to the member
   whose value the string is *)
IsActionTypeValue(s) == \E m \in ActionType : m.value = s
ActionTypeOfValue(s) == CHOOSE m \in ActionType : m.value = s

(* trigger_npc_action, lines 173-179: no such character *)
TriggerMiss(npc_name, context, action_type) ==
    /\ result' =
           IF IsActionTypeValue(action_type)
           THEN [op |-> "trigger_npc_action", npc_name |-> npc_name,
                 action_type |-> action_type, hit |-> FALSE, llm_called |-> FALSE,
                 raised |-> "",
                 ret |-> ActionResponse(ActionTypeOfValue(action_type),
                             <<npc_name, " is not present.">>, "System", NoMeta)]
           ELSE [op |-> "trigger_npc_action", npc_name |-> npc_name,
                 action_type |-> action_type, hit |-> FALSE, llm_called |-> FALSE,
                 raised |-> "ValidationError"]
    /\ UNCHANGED <<npcs, npc_memories, aliased, story_state, conversation_history,
                   settings, sm_settings, settings_shared, clock, disk, recorded, caller, writers>>

(* a faulty variant: the member is looked up by the string as given *)
ActionTypeEnumExact(action_type) ==
    IF \E m \in ActionType : m.name = action_type
    THEN ActionTypeNamed(action_type)
    ELSE INTERACTION

(* lines 184-187: ActionType[action_type.upper()], INTERACTION on KeyError *)
ActionTypeEnum(action_type) ==
    IF \E m \in ActionType : m.name = Upper(action_type)
    THEN ActionTypeNamed(Upper(action_type))
    ELSE INTERACTION

(* trigger_npc_action, lines 181-198: the character is in the roster *)
TriggerHit(npc_name, context, action_type, outcome) ==
    LET state == [story_state EXCEPT !.timestamp = clock]
        agent == npcs[npc_name]
        gen == GenerateAction(agent, context, state, ActionTypeEnum(action_type),
                              outcome)
    IN /\ story_state' = state
       /\ MemoryWritten(npc_name, gen.memory)
       /\ result' = [op |-> "trigger_npc_action", npc_name |-> npc_name,
                     action_type |-> action_type, hit |-> TRUE, llm_called |-> TRUE,
                     outcome |-> outcome, raised |-> "", ret |-> gen.response]
       /\ UNCHANGED <<aliased, conversation_history, settings, sm_settings,
                      settings_shared, clock, disk, recorded, caller, writers>>

(* GameOrchestrator.trigger_npc_action *)
TriggerNpcAction(npc_name, context, action_type, outcome) ==
    IF HasNpc(npc_name)
    THEN TriggerHit(npc_name, context, action_type, outcome)
    ELSE TriggerMiss(npc_name, context, action_type)

(* time passes: datetime.now() returns a later moment *)
Tick == /\ \E t \in Times : Later(t, clock) /\ clock' = t
        /\ UNCHANGED <<npcs, npc_memories, aliased, story_state, conversation_history,
                       settings, sm_settings, settings_shared, disk, result, recorded, caller, writers>>

-----------------------------------------------------------------------------
(* Story setters and settings *)

(* the caller's lists after the Store has changed its own in place: a list
   that is the caller's object shows the change to the caller *)
CallerSees(state) ==
    [caller EXCEPT
        !.plot_points = IF caller.plot_shared THEN state.plot_points ELSE @,
        !.active_goals = IF caller.goals_shared THEN state.active_goals ELSE @]

(* the caller appends to the list it gave to set_plot_points (field
   "plot_points") or to set_active_goals (field "active_goals"); the
   StoryState holds the same list when it was not replaced since *)
CallerAppends(field, item) ==
    LET shared == IF field = "plot_points" THEN caller.plot_shared
                  ELSE caller.goals_shared
    IN /\ caller' = [caller EXCEPT ![field] = Append(@, item)]
       /\ story_state' = IF shared
                         THEN [story_state EXCEPT ![field] = Append(@, item)]
                         ELSE story_state
       /\ result' = [op |-> "caller_appends", field |-> field, raised |-> ""]
       /\ UNCHANGED <<npcs, npc_memories, aliased, conversation_history, settings,
                      sm_settings, settings_shared, clock, disk, recorded, writers>>

(* StoryManager.set_plot_points: the list object is kept as it is given *)
SetPlotPoints(plot_points) ==
    /\ story_state' = [story_state EXCEPT !.plot_points = plot_points]
    /\ caller' = [caller EXCEPT !.plot_points = plot_points, !.plot_shared = TRUE]
    /\ result' = [op |-> "set_plot_points", plot_points |-> plot_points, raised |-> ""]
    /\ UNCHANGED <<npcs, npc_memories, aliased, conversation_history, settings,
                   sm_settings, settings_shared, clock, disk, recorded, writers>>

(* the arguments of the unbroken run of add_plot_point calls that ends with
   the last call *)
PlotPointCalls == IF result.op = "add_plot_point" THEN result.calls ELSE <<>>

(* a faulty variant: a plot point already there is not added again *)
AddPlotPointOnce(plot_point) ==
    /\ story_state' =
           IF \E i \in DOMAIN story_state.plot_points :
                  story_state.plot_points[i] = plot_point
           THEN story_state
           ELSE [story_state EXCEPT !.plot_points = Append(@, plot_point)]
    /\ result' = [op |-> "add_plot_point", calls |-> Append(PlotPointCalls, plot_point),
                  raised |-> ""]
    /\ caller' = CallerSees(story_state')
    /\ UNCHANGED <<npcs, npc_memories, aliased, conversation_history, settings,
                   sm_settings, settings_shared, clock, disk, recorded, writers>>

(* StoryManager.add_plot_point *)
AddPlotPoint(plot_point) ==
    /\ story_state' = [story_state EXCEPT !.plot_points = Append(@, plot_point)]
    /\ result' = [op |-> "add_plot_point", calls |-> Append(PlotPointCalls, plot_point),
                  raised |-> ""]
    /\ caller' = CallerSees(story_state')
    /\ UNCHANGED <<npcs, npc_memories, aliased, conversation_history, settings,
                   sm_settings, settings_shared, clock, disk, recorded, writers>>

(* x in a list *)
In(x, list) == \E i \in DOMAIN list : list[i] = x

(* a faulty variant: the event is appended whether or not it is there *)
CompleteEventAlways(event_name) ==
    /\ story_state' = [story_state EXCEPT !.completed_events = Append(@, event_name)]
    /\ result' = [op |-> "complete_event", event_name |-> event_name, raised |-> ""]
    /\ UNCHANGED <<npcs, npc_memories, aliased, conversation_history, settings,
                   sm_settings, settings_shared, clock, disk, recorded, caller, writers>>

(* StoryManager.complete_event *)
CompleteEvent(event_name) ==
    /\ story_state' =
           IF \E i \in DOMAIN story_state.completed_events :
                  story_state.completed_events[i] = event_name
           THEN story_state
           ELSE [story_state EXCEPT !.completed_events = Append(@, event_name)]
    /\ result' = [op |-> "complete_event", event_name |-> event_name, raised |-> ""]
    /\ UNCHANGED <<npcs, npc_memories, aliased, conversation_history, settings,
                   sm_settings, settings_shared, clock, disk, recorded, caller, writers>>

(* StoryManager.set_active_goals: the list object is kept as it is given *)
SetActiveGoals(goals) ==
    /\ story_state' = [story_state EXCEPT !.active_goals = goals]
    /\ caller' = [caller EXCEPT !.active_goals = goals, !.goals_shared = TRUE]
    /\ result' = [op |-> "set_active_goals", goals |-> goals, raised |-> ""]
    /\ UNCHANGED <<npcs, npc_memories, aliased, conversation_history, settings,
                   sm_settings, settings_shared, clock, disk, recorded, writers>>

(* StoryManager.add_active_goal *)
AddActiveGoal(goal) ==
    /\ story_state' =
           IF In(goal, story_state.active_goals)
           THEN story_state
           ELSE [story_state EXCEPT !.active_goals = Append(@, goal)]
    /\ caller' = CallerSees(story_state')
    /\ result' = [op |-> "add_active_goal", goal |-> goal, raised |-> ""]
    /\ UNCHANGED <<npcs, npc_memories, aliased, conversation_history, settings,
                   sm_settings, settings_shared, clock, disk, recorded, writers>>

(* list.remove(x): the first occurrence of x is taken out *)
Remove(list, x) ==
    LET i == CHOOSE j \in DOMAIN list :
                 list[j] = x /\ \A k \in 1..(j - 1) : list[k] # x
    IN SubSeq(list, 1, i - 1) \o SubSeq(list, i + 1, Len(list))

(* StoryManager.complete_goal *)
CompleteGoal(goal) ==
    /\ story_state' =
           IF In(goal, story_state.active_goals)
           THEN [story_state EXCEPT !.active_goals = Remove(@, goal)]
           ELSE story_state
    /\ caller' = CallerSees(story_state')
    /\ result' = [op |-> "complete_goal", goal |-> goal, raised |-> ""]
    /\ UNCHANGED <<npcs, npc_memories, aliased, conversation_history, settings,
                   sm_settings, settings_shared, clock, disk, recorded, writers>>

(* dict.get(key, default) *)
WorldGet(world_state, key, default) ==
    IF key \in DOMAIN world_state THEN world_state[key] ELSE default

(* StoryManager.update_world_state *)
UpdateWorldState(key, value) ==
    /\ story_state' = [story_state EXCEPT !.world_state = Put(@, key, value)]
    /\ result' = [op |-> "update_world_state", key |-> key, raised |-> ""]
    /\ UNCHANGED <<npcs, npc_memories, aliased, conversation_history, settings,
                   sm_settings, settings_shared, clock, disk, recorded, caller, writers>>

(* StoryManager.get_world_state *)
GetWorldState(key, default) ==
    /\ result' = [op |-> "get_world_state", key |-> key, default |-> default,
                  raised |-> "",
                  ret |-> WorldGet(story_state.world_state, key, default)]
    /\ UNCHANGED <<npcs, npc_memories, aliased, story_state, conversation_history,
                   settings, sm_settings, settings_shared, clock, disk, recorded,
                   caller, writers>>

(* a faulty variant: the world state is replaced by the one given *)
InitializeStoryFresh(plot_points, active_goals, world_state) ==
    /\ story_state' =
           [story_state EXCEPT
               !.plot_points = plot_points,
               !.active_goals = active_goals,
               !.world_state = world_state]
    /\ caller' = [plot_points |-> plot_points, active_goals |-> active_goals,
                  plot_shared |-> TRUE, goals_shared |-> TRUE]
    /\ result' = [op |-> "initialize_story", plot_points |-> plot_points,
                  active_goals |-> active_goals, world_state |-> world_state,
                  raised |-> ""]
    /\ UNCHANGED <<npcs, npc_memories, aliased, conversation_history, settings,
                   sm_settings, settings_shared, clock, disk, recorded, writers>>

(* GameOrchestrator.initialize_story: set_plot_points, set_active_goals and
   one update_world_state for each key *)
InitializeStory(plot_points, active_goals, world_state) ==
    /\ story_state' =
           [story_state EXCEPT
               !.plot_points = plot_points,
               !.active_goals = active_goals,
               !.world_state = [k \in DOMAIN @ \cup DOMAIN world_state |->
                                   IF k \in DOMAIN world_state THEN world_state[k]
                                   ELSE @[k]]]
    /\ caller' = [plot_points |-> plot_points, active_goals |-> active_goals,
                  plot_shared |-> TRUE, goals_shared |-> TRUE]
    /\ result' = [op |-> "initialize_story", plot_points |-> plot_points,
                  active_goals |-> active_goals, world_state |-> world_state,
                  raised |-> ""]
    /\ UNCHANGED <<npcs, npc_memories, aliased, conversation_history, settings,
                   sm_settings, settings_shared, clock, disk, recorded, writers>>

SettingsFields ==
    {"llm_model", "temperature", "max_tokens", "story_style", "difficulty",
     "custom_instructions"}

(* GameOrchestrator.set_settings(key=value): the Coordinator's settings object
   is written; the Store sees it while it holds that same object *)
SetSettings(key, value) ==
    LET new == IF key \in SettingsFields
               THEN [settings EXCEPT ![key] = value]
               ELSE settings
    IN /\ settings' = new
       /\ sm_settings' = IF settings_shared THEN new ELSE sm_settings
       /\ result' = [op |-> "set_settings", raised |-> ""]
       /\ UNCHANGED <<npcs, npc_memories, aliased, story_state, conversation_history,
                      settings_shared, clock, disk, recorded, caller, writers>>

-----------------------------------------------------------------------------
(* story_manager.py: save_state and load_state *)

(* class LLM_Model(Enum) *)
LLM_Model == {
    [name |-> "GPT_41_MINI", value |-> "gpt-4.1-mini"],
    [name |-> "GPT_OSS_OLLAMA", value |-> "gpt-oss:20b-cloud"],
    [name |-> "GPT_OSS_OPEN", value |-> "openai/gpt-oss-20b"],
    [name |-> "DEEPSEEK_V3", value |-> "deepseek/deepseek-chat-v3-0324"],
    [name |-> "DEEPSEEK_V3_OLLAMA", value |-> "deepseek-v3.1:671b-cloud"] }

LLMModelValue(n) == (CHOOSE m \in LLM_Model : m.name = n).value

(* json.dump(default=json_serializer) raises TypeError on an exchange whose
   metadata holds an enumeration member *)
Serializable(exchange) ==
    /\ exchange.metadata.model[1] # "enum"
    /\ exchange.metadata.emotional_state[1] # "enum"
    /\ exchange.metadata.error[1] # "enum"

(* lines 195-202: settings.model_dump(), the model as its string value *)
SettingsDict(st) ==
    [st EXCEPT !.llm_model = IF @[1] = "enum" THEN Str(LLMModelValue(@[2])) ELSE @]

(* lines 213-221: the data save_state writes *)
SavedFile(st, ss, mems, history) ==
    [status |-> "ok", sections |-> Sections,
     story_state |-> [ss EXCEPT !.timestamp = IsoFormat(@)],
     npc_memories |-> mems,
     conversation_history |-> history,
     settings |-> SettingsDict(st)]

(* lines 223-224: open(filepath, "w") empties the file and json.dump writes it
   piece by piece, so a TypeError leaves cut-off JSON behind *)
Written(st, ss, mems, history) ==
    IF \A i \in DOMAIN history : Serializable(history[i])
    THEN [raised |-> "", file |-> SavedFile(st, ss, mems, history)]
    ELSE [raised |-> "TypeError", file |-> CorruptFile]

(* GameOrchestrator.save_game / StoryManager.save_state *)
SaveGame(path) ==
    LET w == Written(sm_settings, story_state, npc_memories, conversation_history)
    IN /\ disk' = [disk EXCEPT ![path] = w.file]
       /\ result' = [op |-> "save_game", path |-> path, raised |-> w.raised]
       /\ UNCHANGED <<npcs, npc_memories, aliased, story_state, conversation_history,
                      settings, sm_settings, settings_shared, clock, recorded, caller, writers>>

(* a faulty variant: a section the file lacks keeps its in-memory value *)
LoadedMerge(file, now, st, ss, mems, history) ==
    [raised |-> IF "settings" \in file.sections /\ file.settings.llm_model[1] = "str"
                THEN "ImportError" ELSE "",
     story_state |->
         IF "story_state" \in file.sections
         THEN [file.story_state EXCEPT !.timestamp = ParseDatetime(@)]
         ELSE ss,
     npc_memories |->
         IF "npc_memories" \in file.sections THEN file.npc_memories ELSE mems,
     conversation_history |->
         IF "conversation_history" \in file.sections
         THEN file.conversation_history ELSE history,
     settings |->
         IF "settings" \in file.sections /\ file.settings.llm_model[1] # "str"
         THEN file.settings ELSE st,
     settings_replaced |->
         "settings" \in file.sections /\ file.settings.llm_model[1] # "str"]

(* lines 239-263: the Store after load_state has read the parsed file.
   story_manager is imported as the top-level package story
   (game_orchestrator.py line 20), so the relative import of line 254, reached
   when the saved model is a string, raises ImportError after the first three
   assignments. *)
Loaded(file, now, st, ss, mems, history) ==
    [raised |-> IF "settings" \in file.sections /\ file.settings.llm_model[1] = "str"
                THEN "ImportError" ELSE "",
     story_state |->
         IF "story_state" \in file.sections
         THEN [file.story_state EXCEPT !.timestamp = ParseDatetime(@)]
         ELSE StoryState(now),
     npc_memories |->
         IF "npc_memories" \in file.sections THEN file.npc_memories ELSE EmptyMap,
     conversation_history |->
         IF "conversation_history" \in file.sections
         THEN file.conversation_history ELSE <<>>,
     settings |->
         IF "settings" \in file.sections /\ file.settings.llm_model[1] # "str"
         THEN file.settings ELSE st,
     settings_replaced |->
         "settings" \in file.sections /\ file.settings.llm_model[1] # "str"]

(* a faulty variant: a missing file empties the Store *)
LoadMissingResets(path) ==
    /\ story_state' = StoryState(clock)
    /\ npc_memories' = EmptyMap
    /\ aliased' = {}
    /\ conversation_history' = <<>>
    /\ recorded' = <<>>
    /\ caller' = [caller EXCEPT !.plot_shared = FALSE, !.goals_shared = FALSE]
    /\ result' = [op |-> "load_game", path |-> path, found |-> FALSE, raised |-> ""]
    /\ UNCHANGED <<npcs, settings, sm_settings, settings_shared, clock, disk, writers>>

(* lines 235-237: the file does not exist *)
LoadMissing(path) ==
    /\ result' = [op |-> "load_game", path |-> path, found |-> FALSE, raised |-> ""]
    /\ UNCHANGED <<npcs, npc_memories, aliased, story_state, conversation_history,
                   settings, sm_settings, settings_shared, clock, disk, recorded, caller, writers>>

(* lines 239-240: json.load raises on cut-off JSON *)
LoadCorrupt(path) ==
    /\ result' = [op |-> "load_game", path |-> path, found |-> TRUE,
                  raised |-> "JSONDecodeError"]
    /\ UNCHANGED <<npcs, npc_memories, aliased, story_state, conversation_history,
                   settings, sm_settings, settings_shared, clock, disk, recorded, caller, writers>>

(* GameOrchestrator.load_game / StoryManager.load_state *)
LoadGame(path) ==
    LET file == disk[path]
        l == Loaded(file, clock, sm_settings, story_state, npc_memories,
                    conversation_history)
    IN CASE file.status = "missing" -> LoadMissing(path)
         [] file.status = "corrupt" -> LoadCorrupt(path)
         [] OTHER ->
              /\ story_state' = l.story_state
              /\ npc_memories' = l.npc_memories
              /\ aliased' = {}
              /\ conversation_history' = l.conversation_history
              /\ recorded' = l.conversation_history
              /\ sm_settings' = l.settings
              /\ settings_shared' = (settings_shared /\ ~l.settings_replaced)
              /\ caller' = [caller EXCEPT !.plot_shared = FALSE,
                                          !.goals_shared = FALSE]
              /\ result' = [op |-> "load_game", path |-> path, found |-> TRUE,
                            raised |-> l.raised]
              /\ UNCHANGED <<npcs, settings, clock, disk, writers>>

-----------------------------------------------------------------------------
(* The log alone, from the empty Store: record_conversation called again   *)
(* and again; the first FreeCalls calls draw their arguments freely, the   *)
(* later ones repeat one exchange.                                         *)

PlayerInputs == {<<"hello">>, <<"bye">>}
NpcNames == {"Guard", "Merchant"}

NextRecord ==
    \/ /\ Len(recorded) < FreeCalls
       /\ \E p \in PlayerInputs, n \in NpcNames :
              RecordConversation(p, n, <<"H", "a", "i", "l", ".">>, NoMeta)
    \/ /\ FreeCalls <= Len(recorded)
       /\ Len(recorded) < MaxCalls
       /\ RecordConversation(<<"hello">>, "Guard", <<"H", "a", "i", "l", ".">>, NoMeta)

SpecRecord == Init /\ [][NextRecord]_vars

\* C2: after N calls of record_conversation on an empty Store the log is exactly
\* the last min(N, 100) recorded exchanges, in call order, unaltered.
C2_LastExchangesKept ==
    /\ Len(conversation_history) = Min(Len(recorded), HistoryCap)
    /\ \A i \in 1..Len(conversation_history) :
           conversation_history[i] =
               recorded[Len(recorded) - Len(conversation_history) + i]

C2_Witness ==
    /\ Len(recorded) = HistoryCap + 2
    /\ Len(conversation_history) = HistoryCap
    /\ recorded[1].player_input = <<"bye">>
    /\ conversation_history[1] = recorded[3]

-----------------------------------------------------------------------------
(* The Coordinator: roster, dialogue and actions *)

RosterNames == {"Guard"}
AskedNames == {"Guard", "Ghost"}
Models == {EnumV("GPT_OSS_OLLAMA"), NoneV}
Contexts == {<<"a noise">>}

Hail == <<"H", "a", "i", "l", ".">>

Outcomes ==
    {Content(Hail), Content(<<"\"">> \o Hail \o <<"\"">>), Content(<<" ">> \o Hail),
     Content(<<>>), NullContent, Raises}

ActionKinds ==
    {<<"i", "n", "t", "e", "r", "a", "c", "t", "i", "o", "n">>,
     <<"E", "M", "O", "T", "I", "O", "N">>,
     <<"M", "o", "v", "e", "m", "e", "n", "t">>,
     <<"s", "o", "m", "e", "r", "s", "a", "u", "l", "t">>}

MemoryRoom(name) ==
    HasNpc(name) => Len(npcs[name].memory.memories) < MaxMemories

LogRoom(name) == HasNpc(name) => Len(recorded) < MaxLog

Next ==
    \/ \E n \in RosterNames, m \in Models : AddNpc(n, m)
    \/ \E n \in RosterNames : RemoveNpc(n)
    \/ \E p \in {<<"hello">>}, n \in AskedNames, o \in Outcomes :
           MemoryRoom(n) /\ LogRoom(n) /\ ProcessPlayerInput(p, n, o)
    \/ Tick

Spec == Init /\ [][Next]_vars

(* The Coordinator: roster and actions *)
NextAction ==
    \/ \E n \in RosterNames, m \in Models : AddNpc(n, m)
    \/ \E n \in RosterNames : RemoveNpc(n)
    \/ \E n \in AskedNames, c \in Contexts, k \in ActionKinds, o \in Outcomes :
           MemoryRoom(n) /\ TriggerNpcAction(n, c, k, o)
    \/ Tick

SpecAction == Init /\ [][NextAction]_vars

-----------------------------------------------------------------------------
(* The log at its cap: the Store after add_npc and HistoryCap - 1 calls of
   record_conversation, then every operation that touches the log *)

Prefilled == [i \in 1..(HistoryCap - 1) |-> Exchange(Epoch, <<"hello">>, "Guard", Hail, NoMeta)]

InitCap ==
    /\ npcs = Put(EmptyMap, "Guard", NPCAgent("Guard", EnumV("GPT_OSS_OLLAMA")))
    /\ npc_memories = Put(EmptyMap, "Guard", NPCMemory("Guard"))
    /\ aliased = {"Guard"}
    /\ story_state = StoryState(Epoch)
    /\ conversation_history = Prefilled
    /\ settings = GameSettings
    /\ sm_settings = GameSettings
    /\ settings_shared = TRUE
    /\ clock = Epoch
    /\ disk = [p \in Paths |-> NoFile]
    /\ result = NoResult
    /\ recorded = Prefilled
    /\ caller = NoCaller
    /\ writers = NoWriters

NextCap ==
    \/ /\ Len(recorded) < MaxCalls
       /\ RecordConversation(<<"hello">>, "Guard", Hail, NoMeta)
    \/ \E n \in AskedNames :
           /\ Len(recorded) < MaxCalls
           /\ MemoryRoom(n)
           /\ ProcessPlayerInput(<<"hello">>, n, Content(Hail))
    \/ \E n \in AskedNames :
           /\ MemoryRoom(n)
           /\ TriggerNpcAction(n, <<"a noise">>,
                               <<"E", "M", "O", "T", "I", "O", "N">>, Content(Hail))
    \/ SaveGame("save.json")
    \/ \E p \in Paths : LoadGame(p)

SpecCap == InitCap /\ [][NextCap]_vars

-----------------------------------------------------------------------------
(* Saving and loading: the Store is filled through the setters, a dialogue
   and record_conversation, saved to save.json and loaded from either path.
   old.json is a file from elsewhere: missing, an empty JSON object, or an
   object with the story_state section only. *)

EmptyObjectFile == [NoFile EXCEPT !.status = "ok"]

StoryOnlyFile ==
    [NoFile EXCEPT
        !.status = "ok",
        !.sections = {"story_state"},
        !.story_state = [plot_points |-> <<"old plot">>, completed_events |-> <<>>,
                         active_goals |-> <<"old goal">>, world_state |-> EmptyMap,
                         timestamp |-> <<0, 1>>]]

OldFiles == {NoFile, EmptyObjectFile, StoryOnlyFile}

InitPersist ==
    /\ npcs = EmptyMap
    /\ npc_memories = EmptyMap
    /\ aliased = {}
    /\ story_state = StoryState(Epoch)
    /\ conversation_history = <<>>
    /\ settings = GameSettings
    /\ sm_settings = GameSettings
    /\ settings_shared = TRUE
    /\ clock = Epoch
    /\ \E f \in OldFiles :
           disk = [p \in Paths |-> IF p = "old.json" THEN f ELSE NoFile]
    /\ result = NoResult
    /\ recorded = <<>>
    /\ caller = NoCaller
    /\ writers = NoWriters

Door == Put(EmptyMap, "door", Str("open"))

NextPersist ==
    \/ /\ story_state.plot_points = <<>>
       /\ InitializeStory(<<"plot">>, <<"goal">>, Door)
    \/ CompleteEvent("ev")
    \/ AddNpc("Guard", EnumV("GPT_OSS_OLLAMA"))
    \/ /\ HasNpc("Guard")
       /\ MemoryRoom("Guard")
       /\ Len(recorded) < MaxSaved
       /\ ProcessPlayerInput(<<"hello">>, "Guard", Content(Hail))
    \/ /\ Len(recorded) < MaxSaved
       /\ RecordConversation(<<"hello">>, "Guard", Hail, NoMeta)
    \/ SetSettings("temperature", 5)
    \/ SaveGame("save.json")
    \/ \E p \in Paths : LoadGame(p)

SpecPersist == InitPersist /\ [][NextPersist]_vars

-----------------------------------------------------------------------------
(* The settings: set_settings with a member, a string that is the value of no
   member (the model of test_game_settings) and None, add_npc with the
   settings' model, save and load on either path *)

SettingsModels == {EnumV("GPT_OSS_OLLAMA"), Str("gpt-4o-mini"), NoneV}

NextSettings ==
    \/ \E v \in SettingsModels : SetSettings("llm_model", v)
    \/ SetSettings("temperature", 5)
    \/ AddNpc("Guard", NoneV)
    \/ \E p \in Paths : SaveGame(p)
    \/ \E p \in Paths : LoadGame(p)

SpecSettings == Init /\ [][NextSettings]_vars

-----------------------------------------------------------------------------
(* The plot points of a fresh Store: add_plot_point called again and again *)

PlotPoints == {"arrival", "ambush", "escape"}

NextPlot ==
    /\ Len(story_state.plot_points) < MaxPlot
    /\ \E p \in PlotPoints : AddPlotPoint(p)

SpecPlot == Init /\ [][NextPlot]_vars

(* The completed events, saved and loaded *)

Events == {"gate opened", "thief caught", "bridge burnt"}

NextEvents ==
    \/ \E e \in Events : CompleteEvent(e)
    \/ SaveGame("save.json")
    \/ LoadGame("save.json")

SpecEvents == Init /\ [][NextEvents]_vars

(* The active goals: the three Store operations and initialize_story, with
   lists a caller may give *)

Goals == {"find the key", "leave town"}

GoalLists ==
    {<<>>, <<"find the key">>, <<"leave town", "find the key">>,
     <<"find the key", "find the key">>}

NextGoals ==
    \/ \E g \in GoalLists : SetActiveGoals(g)
    \/ \E g \in Goals : AddActiveGoal(g)
    \/ \E g \in Goals \cup {"slay the dragon"} : CompleteGoal(g)
    \/ \E g \in GoalLists : InitializeStory(<<"plot">>, g, Door)
    \/ CompleteEvent("gate opened")

SpecGoals == Init /\ [][NextGoals]_vars

-----------------------------------------------------------------------------
(* The memories: one character added, removed, spoken to and set to act, the
   game saved to save.json and loaded from either path.  old.json is a file
   from elsewhere: missing, or an object whose npc_memories section holds a
   memory of the character. *)

GuardFile ==
    [NoFile EXCEPT
        !.status = "ok",
        !.sections = {"npc_memories"},
        !.npc_memories = Put(EmptyMap, "Guard",
                             [NPCMemory("Guard") EXCEPT !.player_interactions = 2])]

InitMemory ==
    /\ npcs = EmptyMap
    /\ npc_memories = EmptyMap
    /\ aliased = {}
    /\ story_state = StoryState(Epoch)
    /\ conversation_history = <<>>
    /\ settings = GameSettings
    /\ sm_settings = GameSettings
    /\ settings_shared = TRUE
    /\ clock = Epoch
    /\ \E f \in {NoFile, GuardFile} :
           disk = [p \in Paths |-> IF p = "old.json" THEN f ELSE NoFile]
    /\ result = NoResult
    /\ recorded = <<>>
    /\ caller = NoCaller
    /\ writers = NoWriters

Replies == {Content(Hail), Content(<<"\"">> \o Hail \o <<"\"">>), Content(<<>>)}

NextMemory ==
    \/ AddNpc("Guard", EnumV("GPT_OSS_OLLAMA"))
    \/ RemoveNpc("Guard")
    \/ \E o \in Replies :
           /\ MemoryRoom("Guard")
           /\ LogRoom("Guard")
           /\ ProcessPlayerInput(<<"hello">>, "Guard", o)
    \/ /\ MemoryRoom("Guard")
       /\ TriggerNpcAction("Guard", <<"a noise">>,
                           <<"e", "m", "o", "t", "i", "o", "n">>, Content(Hail))
    \/ SaveGame("save.json")
    \/ \E p \in Paths : LoadGame(p)

SpecMemory == InitMemory /\ [][NextMemory]_vars

-----------------------------------------------------------------------------
(* The summary: a short log of exchanges with two characters, with texts
   shorter and longer than the preview, and get_conversation_summary asked
   with every filter and last_n *)

LongInput == [i \in 1..(PreviewLen + 2) |-> IF i <= PreviewLen THEN "x" ELSE "!"]
LongReply == [i \in 1..(PreviewLen + 1) |-> "y"]

Filters == {NoneV, Str(""), Str("Guard"), Str("Merchant"), Str("Ghost")}

NextSummary ==
    \/ /\ Len(recorded) < MaxDigested
       /\ \E p \in {<<"h", "i">>, LongInput}, n \in NpcNames, r \in {Hail, LongReply} :
              RecordConversation(p, n, r, NoMeta)
    \/ \E f \in Filters, k \in 0..MaxLastN : GetConversationSummary(f, k)

SpecSummary == Init /\ [][NextSummary]_vars

-----------------------------------------------------------------------------
(* The roster: two characters added and removed, with the model given, given
   as None, or left out as test_add_npc does, under settings with and
   without a model *)

TwoNames == {"Guard", "Merchant"}

NextRoster ==
    \/ \E n \in TwoNames, m \in Models \cup {Omitted} : AddNpc(n, m)
    \/ \E n \in TwoNames : RemoveNpc(n)
    \/ \E v \in {EnumV("DEEPSEEK_V3"), NoneV} : SetSettings("llm_model", v)

SpecRoster == Init /\ [][NextRoster]_vars

-----------------------------------------------------------------------------
(* The world state: initialize_story as test_story_initialization calls it and
   with other arguments, update_world_state and get_world_state.  No call
   sets the key "moon". *)

WorldKeys == {"test", "lamp"}
WorldValues == {Str("value"), Str("lit"), NoneV}
Defaults == {NoneV, Str("unknown")}

WorldStates ==
    {EmptyMap,
     Put(EmptyMap, "test", Str("value")),
     Put(Put(EmptyMap, "test", Str("lit")), "door", Str("open"))}

NextWorld ==
    \/ \E p \in {<<>>, <<"Test point 1", "Test point 2">>}, w \in WorldStates :
           InitializeStory(p, <<"Goal 1">>, w)
    \/ \E k \in WorldKeys, v \in WorldValues : UpdateWorldState(k, v)
    \/ \E k \in WorldKeys \cup {"door", "moon"}, d \in Defaults : GetWorldState(k, d)

SpecWorld == Init /\ [][NextWorld]_vars

-----------------------------------------------------------------------------
(* The caller's lists: a caller gives lists to set_plot_points and
   set_active_goals, goes on using them, and calls the other setters *)

ListRoom(list) == Len(list) < MaxList

NextLists ==
    \/ \E p \in {<<>>, <<"arrival">>} : SetPlotPoints(p)
    \/ \E g \in {<<>>, <<"find the key">>} : SetActiveGoals(g)
    \/ /\ ListRoom(story_state.plot_points)
       /\ AddPlotPoint("ambush")
    \/ /\ ListRoom(story_state.active_goals)
       /\ AddActiveGoal("leave town")
    \/ \E g \in Goals : CompleteGoal(g)
    \/ \E f \in {"plot_points", "active_goals"} :
           /\ ListRoom(caller[f])
           /\ ListRoom(story_state[f])
           /\ CallerAppends(f, "mine")

SpecLists == Init /\ [][NextLists]_vars

-----------------------------------------------------------------------------
(* Two threads on one Store whose log holds HistoryCap - 1 exchanges: each
   calls record_conversation up to MaxWrites times with inputs of its own,
   and the steps of their calls interleave freely; a thread that starts a
   call only when no other is in one is a single writer *)

Ordinals == <<"first", "second", "third", "fourth">>

NextWriters ==
    \/ \E w \in Writers :
           /\ writers.calls[w].done < MaxWrites
           /\ AppendStep(w, <<w, Ordinals[writers.calls[w].done + 1]>>, "Guard", Hail,
                         NoMeta)
    \/ \E w \in Writers : CheckStep(w)
    \/ \E w \in Writers : SliceStep(w)
    \/ \E w \in Writers : AssignStep(w)

SpecWriters == InitCap /\ [][NextWriters]_vars

-----------------------------------------------------------------------------
(* The claims *)

StoreUnchanged == UNCHANGED <<conversation_history, npc_memories, story_state>>

LastExchange == conversation_history[Len(conversation_history)]

C3_MissLeavesStore ==
    [][(result'.op = "process_player_input" /\ ~HasNpc(result'.npc_name)) =>
           /\ result'.raised = ""
           /\ result'.ret.npc_name = "System"
           /\ ~result'.llm_called
           /\ StoreUnchanged]_vars

C3_Witness ==
    /\ result.op = "process_player_input"
    /\ result.npc_name = "Guard"
    /\ ~HasNpc("Guard")
    /\ "Guard" \in DOMAIN npc_memories
    /\ npc_memories["Guard"].player_interactions = 1
    /\ Len(conversation_history) = 1
    /\ story_state.timestamp # clock
    /\ result.ret.npc_name = "System"

\* C4: trigger_npc_action with a name that is not in the roster never raises,
\* whatever the action kind string: it returns a response attributed to
\* "System" and changes no state.
C4_MissNeverRaises ==
    [][(result'.op = "trigger_npc_action" /\ ~HasNpc(result'.npc_name)) =>
           /\ result'.raised = ""
           /\ result'.ret.npc_name = "System"
           /\ StoreUnchanged
           /\ UNCHANGED npcs]_vars

LowerChar(c) ==
    IF \E i \in DOMAIN UpperLetters : UpperLetters[i] = c
    THEN LowerLetters[CHOOSE i \in DOMAIN UpperLetters : UpperLetters[i] = c]
    ELSE c

EqualIgnoringCase(a, b) ==
    /\ Len(a) = Len(b)
    /\ \A i \in DOMAIN a : LowerChar(a[i]) = LowerChar(b[i])

\* C5: for a registered character trigger_npc_action raises nothing, and the
\* response carries the member whose value equals the action kind string
\* case-insensitively, INTERACTION when there is none, also when generation
\* fails.
C5_KindMapped ==
    (result.op = "trigger_npc_action" /\ result.hit) =>
        /\ result.raised = ""
        /\ \A m \in ActionType :
               EqualIgnoringCase(m.value, result.action_type) =>
                   result.ret.action_type = m
        /\ (\A m \in ActionType : ~EqualIgnoringCase(m.value, result.action_type)) =>
               result.ret.action_type.value =
                   <<"i", "n", "t", "e", "r", "a", "c", "t", "i", "o", "n">>

C5_Witness ==
    /\ result.op = "trigger_npc_action"
    /\ result.hit
    /\ result.action_type = <<"M", "o", "v", "e", "m", "e", "n", "t">>
    /\ result.outcome = NullContent
    /\ result.ret.action_type.value = <<"m", "o", "v", "e", "m", "e", "n", "t">>
    /\ result.ret.metadata.error # Absent

GenerationFailed(outcome) ==
    \/ outcome.kind = "raise"
    \/ outcome.kind = "null"
    \/ outcome.kind = "content" /\ outcome.text = <<>>

NonEmptyError(metadata) ==
    /\ metadata.isdict
    /\ metadata.error[1] = "str"
    /\ metadata.error[2] # ""

\* C6: for a registered character, when the generation collaborator raises or
\* returns no content during process_player_input, nothing is raised, the
\* response returned and recorded is the fallback line and the recorded
\* metadata has a non-empty "error" entry.
C6_DialogueFallback ==
    (result.op = "process_player_input" /\ result.hit
        /\ GenerationFailed(result.outcome)) =>
        /\ result.raised = ""
        /\ result.ret.npc_response = FallbackDialogue
        /\ LastExchange.npc_response = FallbackDialogue
        /\ NonEmptyError(LastExchange.metadata)

\* C7: for a registered character, when the generation collaborator raises or
\* returns no content (empty text or null) during trigger_npc_action, nothing
\* is raised and the response holds the non-empty fallback line and a
\* non-empty "error" entry in its metadata.
C7_ActionFallback ==
    (result.op = "trigger_npc_action" /\ result.hit
        /\ GenerationFailed(result.outcome)) =>
        /\ result.raised = ""
        /\ result.ret.content = <<result.npc_name, " stands quietly.">>
        /\ NonEmptyError(result.ret.metadata)

\* C8: for every reachable Store state S, saving S and loading the saved file
\* into a Store yields a Store equal to S field by field: StoryState, every
\* character memory, conversation log and settings.
C8_RoundTrip ==
    LET w == Written(sm_settings, story_state, npc_memories, conversation_history)
        l == Loaded(w.file, clock, GameSettings, StoryState(clock), EmptyMap, <<>>)
    IN /\ w.raised = ""
       /\ l.raised = ""
       /\ l.story_state = story_state
       /\ l.npc_memories = npc_memories
       /\ l.conversation_history = conversation_history
       /\ l.settings = sm_settings

\* C9: load on a path where no file exists raises nothing and leaves the
\* StoryState, the memory mapping, the conversation log and the settings as
\* they were.
C9_MissingFileNoChange ==
    [][(result'.op = "load_game" /\ disk[result'.path].status = "missing") =>
           /\ result'.raised = ""
           /\ StoreUnchanged
           /\ UNCHANGED <<settings, sm_settings>>]_vars

C9_Witness ==
    /\ result.op = "load_game"
    /\ disk[result.path].status = "missing"
    /\ story_state.plot_points # <<>>
    /\ story_state.completed_events # <<>>
    /\ DOMAIN npc_memories # {}
    /\ conversation_history # <<>>
    /\ sm_settings.temperature = 5

\* C10: load from an existing file (one that holds a JSON object) is a full
\* replace: afterwards the StoryState, the memory mapping and the conversation
\* log are exactly the file's, a section the file lacks is the empty
\* zero-value, and nothing of the prior in-memory state survives.
C10_LoadReplaces ==
    [][(result'.op = "load_game" /\ disk[result'.path].status = "ok") =>
           LET file == disk[result'.path]
           IN /\ IF "story_state" \in file.sections
                 THEN /\ story_state'.plot_points = file.story_state.plot_points
                      /\ story_state'.completed_events =
                             file.story_state.completed_events
                      /\ story_state'.active_goals = file.story_state.active_goals
                      /\ story_state'.world_state = file.story_state.world_state
                      /\ IsoFormat(story_state'.timestamp) =
                             file.story_state.timestamp
                 ELSE /\ story_state'.plot_points = <<>>
                      /\ story_state'.completed_events = <<>>
                      /\ story_state'.active_goals = <<>>
                      /\ story_state'.world_state = EmptyMap
              /\ npc_memories' = IF "npc_memories" \in file.sections
                                 THEN file.npc_memories ELSE EmptyMap
              /\ conversation_history' =
                     IF "conversation_history" \in file.sections
                     THEN file.conversation_history ELSE <<>>]_vars

C10_Witness ==
    /\ result.op = "load_game"
    /\ result.path = "old.json"
    /\ disk["old.json"] = StoryOnlyFile
    /\ story_state.plot_points = <<"old plot">>
    /\ story_state.timestamp = [sec |-> 0, usec |-> 1]
    /\ HasNpc("Guard")
    /\ npcs["Guard"].memory.player_interactions = 1
    /\ npc_memories = EmptyMap
    /\ conversation_history = <<>>

(* the settings model the decode of a saved token is meant to give *)
MemberOrString(token) ==
    IF \E m \in LLM_Model : m.value = token
    THEN EnumV((CHOOSE m \in LLM_Model : m.value = token).name)
    ELSE Str(token)

\* C11: on load, a settings model token equal to the value of an enumeration
\* member is restored as that member, a token that matches no member stays a
\* raw string, and load completes without error in both cases.
C11_ModelTokenRestored ==
    [][(/\ result'.op = "load_game"
        /\ disk[result'.path].status = "ok"
        /\ "settings" \in disk[result'.path].sections
        /\ disk[result'.path].settings.llm_model[1] = "str") =>
           /\ result'.raised = ""
           /\ sm_settings'.llm_model =
                  MemberOrString(disk[result'.path].settings.llm_model[2])]_vars

NoDuplicates(list) == \A i, j \in DOMAIN list : list[i] = list[j] => i = j

IsPrefix(a, b) == Len(a) <= Len(b) /\ SubSeq(b, 1, Len(a)) = a

\* C12: completed_events holds no duplicate in any reachable state:
\* complete_event(name) appends name only if it is absent, so after any number
\* of calls with the same name it occurs exactly once, and the events stay in
\* the order of their first completion.
C12_CompletedEventsNoDuplicates ==
    /\ [](NoDuplicates(story_state.completed_events))
    /\ [][result'.op = "complete_event" =>
             /\ In(result'.event_name, story_state'.completed_events)
             /\ IsPrefix(story_state.completed_events, story_state'.completed_events)
             /\ In(result'.event_name, story_state.completed_events) =>
                    story_state'.completed_events = story_state.completed_events]_vars

(* "thief caught" was completed first, saved, and has just been completed
   again *)
C12_Witness ==
    /\ result.op = "complete_event"
    /\ result.event_name = "thief caught"
    /\ story_state.completed_events = <<"thief caught", "gate opened">>
    /\ disk["save.json"].status = "ok"
    /\ disk["save.json"].story_state.completed_events = <<"thief caught">>

\* C13: active_goals holds no duplicate in any state reachable through
\* set_active_goals, add_active_goal, complete_goal and initialize_story.
C13_ActiveGoalsNoDuplicates == NoDuplicates(story_state.active_goals)

\* C14: complete_goal(g) raises nothing and afterwards g is not in
\* active_goals, so that a second complete_goal(g) changes nothing; when g
\* was absent the call leaves all state as it was.
C14_CompleteGoalIdempotent ==
    [][result'.op = "complete_goal" =>
          /\ result'.raised = ""
          /\ ~In(result'.goal, story_state'.active_goals)
          /\ ~In(result'.goal, story_state.active_goals) =>
                 /\ StoreUnchanged
                 /\ UNCHANGED <<npcs, settings, sm_settings>>]_vars

\* C15: after any sequence of add_plot_point calls on a fresh Store,
\* plot_points is the sequence of the arguments in call order, nothing
\* dropped, so its length is the number of calls.
C15_PlotPointsAreCalls == story_state.plot_points = PlotPointCalls

C15_Witness ==
    /\ result.op = "add_plot_point"
    /\ result.calls = <<"ambush", "arrival", "ambush">>
    /\ story_state.plot_points = <<"ambush", "arrival", "ambush">>

(* the interaction count the Store holds for a name *)
StoreCount(name) == npc_memories[name].player_interactions

\* C16: for every character name, the interaction count the Store holds for
\* that name never decreases over any sequence of add_npc, remove_npc,
\* process_player_input, trigger_npc_action, save_game and load_game.
C16_CountNeverDecreases ==
    [][\A n \in DOMAIN npc_memories :
           /\ n \in DOMAIN npc_memories'
           /\ npc_memories'[n].player_interactions >= StoreCount(n)]_vars

\* C16 as amended: the count the Store holds for a name never decreases over
\* remove_npc, trigger_npc_action and save_game, nor over process_player_input
\* unless a load_game came after the character was added or last spoken to;
\* add_npc of the name sets its count to 0 and load_game sets it to what the
\* file holds.
C16_CountNeverDecreasesUnlessReplaced ==
    [][\A n \in DOMAIN npc_memories :
           (/\ result'.op # "load_game"
            /\ ~(result'.op = "add_npc" /\ result'.npc_name = n)
            /\ ~(result'.op = "process_player_input" /\ result'.npc_name = n
                   /\ n \notin aliased)) =>
               /\ n \in DOMAIN npc_memories'
               /\ npc_memories'[n].player_interactions >= StoreCount(n)]_vars

(* the character was spoken to, removed, and its count is still held *)
C16_Witness ==
    /\ result.op = "remove_npc"
    /\ ~HasNpc("Guard")
    /\ "Guard" \in DOMAIN npc_memories
    /\ StoreCount("Guard") = 1
    /\ disk["save.json"].status = "corrupt"

IsContent(outcome) == outcome.kind = "content"

(* the log grew by one record: that of the exchange returned *)
OneRecordAppended(x, name, t) ==
    /\ Len(recorded') = Len(recorded) + 1
    /\ Len(conversation_history') = Min(Len(conversation_history) + 1, HistoryCap)
    /\ LET e == conversation_history'[Len(conversation_history')]
       IN /\ e.player_input = x
          /\ e.npc_name = name
          /\ e.npc_response = t
    /\ \A i \in 1..(Len(conversation_history') - 1) :
           conversation_history'[i] =
               conversation_history[Len(conversation_history)
                                    - (Len(conversation_history') - 1) + i]

\* C17: for a registered character whose generation collaborator returns text
\* t, process_player_input(x, name) returns an exchange with player_input x,
\* response t and name name, increases the character's interaction count by
\* exactly 1 and appends exactly one record (x, name, t) to the log.
C17_HitReturnsText ==
    [][(result'.op = "process_player_input" /\ result'.hit
          /\ IsContent(result'.outcome)) =>
           /\ result'.raised = ""
           /\ result'.ret.player_input = result'.player_input
           /\ result'.ret.npc_response = result'.outcome.text
           /\ result'.ret.npc_name = result'.npc_name
           /\ npcs'[result'.npc_name].memory.player_interactions =
                  npcs[result'.npc_name].memory.player_interactions + 1
           /\ OneRecordAppended(result'.player_input, result'.npc_name,
                                result'.outcome.text)]_vars

(* a text the code returns as it is: not empty, not within a pair of quotes *)
PlainText(t) ==
    /\ t # <<>>
    /\ ~(t[1] = "\"" /\ t[Len(t)] = "\"")
    /\ ~(t[1] = "'" /\ t[Len(t)] = "'")

\* C17 as amended: when the text t is not empty and not enclosed in a pair of
\* double or single quotes, the exchange returned holds x, t and name, the
\* interaction count of the character's memory grows by exactly 1 and exactly
\* one record (x, name, t) is appended to the log.
C17_HitReturnsPlainText ==
    [][(result'.op = "process_player_input" /\ result'.hit
          /\ IsContent(result'.outcome) /\ PlainText(result'.outcome.text)) =>
           /\ result'.raised = ""
           /\ result'.ret.player_input = result'.player_input
           /\ result'.ret.npc_response = result'.outcome.text
           /\ result'.ret.npc_name = result'.npc_name
           /\ npcs'[result'.npc_name].memory.player_interactions =
                  npcs[result'.npc_name].memory.player_interactions + 1
           /\ OneRecordAppended(result'.player_input, result'.npc_name,
                                result'.outcome.text)]_vars

(* the scenario of the spec: "Guard" registered with count 0, "hello" answered
   with "Hail." *)
C17_Witness ==
    /\ result.op = "process_player_input"
    /\ result.hit
    /\ result.player_input = <<"hello">>
    /\ result.outcome = Content(Hail)
    /\ result.ret = DialogueExchange(<<"hello">>, Hail, "Guard", Str("neutral"))
    /\ StoreCount("Guard") = 1
    /\ Len(conversation_history) = 1

\* C18: after every process_player_input or trigger_npc_action on a registered
\* character, in every reachable state, after load_game too, the memory the
\* Store holds for the character equals the memory of the character's agent.
C18_StoreHoldsAgentMemory ==
    (result.op \in {"process_player_input", "trigger_npc_action"} /\ result.hit) =>
        /\ result.npc_name \in DOMAIN npc_memories
        /\ npc_memories[result.npc_name] = npcs[result.npc_name].memory

(* the records of the log that match an optional character filter *)
Matching(filter) ==
    IF filter = NoneV THEN conversation_history
    ELSE SelectSeq(conversation_history, LAMBDA c : c.npc_name = filter[2])

\* C19: for every last_n >= 0 and optional character filter,
\* get_conversation_summary digests exactly the last min(last_n, m) of the m
\* log records that match the filter, in log order, each text cut to 50
\* characters, and reports no conversations exactly when that selection is
\* empty.
C19_SummaryOfLastN ==
    result.op = "get_conversation_summary" =>
        LET matching == Matching(result.npc_name)
            m == Len(matching)
            k == Min(result.last_n, m)
        IN /\ result.raised = ""
           /\ Len(result.ret.digests) = k
           /\ \A i \in 1..k :
                  LET conv == matching[m - k + i]
                      d == result.ret.digests[i]
                  IN /\ d.npc_name = conv.npc_name
                     /\ Len(d.player_input) <= PreviewLen
                     /\ Len(d.npc_response) <= PreviewLen
                     /\ \A j \in 1..Len(d.player_input) :
                            d.player_input[j] = conv.player_input[j]
                     /\ \A j \in 1..Len(d.npc_response) :
                            d.npc_response[j] = conv.npc_response[j]
                     /\ Len(d.player_input) = Min(Len(conv.player_input), PreviewLen)
                     /\ Len(d.npc_response) = Min(Len(conv.npc_response), PreviewLen)
           /\ result.ret.none <=> (k = 0)

\* C20: a new Coordinator has an empty roster; every add_npc(p) adds exactly
\* the entry p.name to the roster and registers a memory for p.name in the
\* Store, every remove_npc(n) takes exactly n out, and nothing else changes
\* the roster, so that its names are those added and not removed since.
C20_RosterIsAddedNotRemoved ==
    /\ [](result.op = "init" => DOMAIN npcs = {})
    /\ [][/\ result'.op = "add_npc" =>
                /\ result'.raised = ""
                /\ DOMAIN npcs' = DOMAIN npcs \cup {result'.npc_name}
                /\ result'.npc_name \in DOMAIN npc_memories'
                /\ npc_memories'[result'.npc_name] = npcs'[result'.npc_name].memory
          /\ result'.op = "remove_npc" =>
                DOMAIN npcs' = DOMAIN npcs \ {result'.npc_name}
          /\ result'.op \notin {"add_npc", "remove_npc"} =>
                DOMAIN npcs' = DOMAIN npcs]_vars

\* C21: after initialize_story(p, g, w), plot_points is p, active_goals is g
\* and get_world_state(k) returns w[k] for every key k of w, whatever the
\* default; the keys not in w keep their earlier values; and get_world_state
\* of a key never set returns the default it is given.
C21_StoryInitialized ==
    /\ [][result'.op = "initialize_story" =>
             LET w == result'.world_state
                 before == story_state.world_state
                 after == story_state'.world_state
             IN /\ result'.raised = ""
                /\ story_state'.plot_points = result'.plot_points
                /\ story_state'.active_goals = result'.active_goals
                /\ \A k \in DOMAIN w, d \in Defaults : WorldGet(after, k, d) = w[k]
                /\ \A k \in DOMAIN before \ DOMAIN w, d \in Defaults :
                       WorldGet(after, k, d) = before[k]
                /\ DOMAIN after = DOMAIN before \cup DOMAIN w]_vars
    /\ []((result.op = "get_world_state"
             /\ result.key \notin DOMAIN story_state.world_state) =>
              result.ret = result.default)

(* the call of test_story_initialization, made after "lamp" was set *)
C21_Witness ==
    /\ result.op = "initialize_story"
    /\ result.plot_points = <<"Test point 1", "Test point 2">>
    /\ result.world_state = Put(EmptyMap, "test", Str("value"))
    /\ Len(story_state.plot_points) = 2
    /\ Len(story_state.active_goals) = 1
    /\ WorldGet(story_state.world_state, "test", NoneV) = Str("value")
    /\ WorldGet(story_state.world_state, "lamp", NoneV) = Str("lit")

\* C22: the StoryState changes only through the setters: after
\* set_plot_points(seq) or set_active_goals(seq) a change the caller makes to
\* its own seq does not alter the Store's plot_points or active_goals, and
\* add_plot_point, add_active_goal and complete_goal do not alter the
\* caller's seq.
C22_ListsNotShared ==
    [][/\ result'.op = "caller_appends" => story_state' = story_state
       /\ result'.op \in {"add_plot_point", "add_active_goal", "complete_goal"} =>
              /\ caller'.plot_points = caller.plot_points
              /\ caller'.active_goals = caller.active_goals]_vars

(* an exchange given to the log is not in it although fewer than 100 newer
   ones were given *)
RecordLost ==
    \E i \in DOMAIN recorded :
        /\ Len(recorded) - i < HistoryCap
        /\ \A j \in DOMAIN conversation_history : conversation_history[j] # recorded[i]

\* C23: the Store has no mutual exclusion: when the steps of two
\* record_conversation calls interleave, an appended record can be missing
\* from the log although fewer than 100 newer records exist; as long as no two
\* calls were ever in progress at once (a single writer) no record is lost.
C23_LostOnlyWhenInterleaved == RecordLost => writers.overlapped

(* no call is in progress, and the first exchange of w2, the newest one
   given, is gone from the log: w1 took its slice before w2 appended and
   assigned it afterwards *)
C23_Witness ==
    /\ \A w \in Writers : ~InCall(w)
    /\ writers.overlapped
    /\ RecordLost
    /\ Len(recorded) = HistoryCap + 2
    /\ recorded[HistoryCap + 2].player_input = <<"w2", "first">>
    /\ \A j \in DOMAIN conversation_history :
           conversation_history[j].player_input # <<"w2", "first">>

\* C24: save_game raises no error and writes a complete file in every state
\* reachable through the Coordinator's operations, also after a
\* process_player_input that reached the character, whose recorded metadata
\* carries the agent's model.
C24_SaveAlwaysCompletes ==
    result.op = "save_game" =>
        /\ result.raised = ""
        /\ disk[result.path].status = "ok"

\* C25: process_player_input on a registered character appends one record to
\* the log in every case; it appends a memory entry and increments the
\* interaction count when the generation collaborator produced content, and
\* leaves the character's memories and count as they were when it raised or
\* returned no content.
C25_FailedGenerationNotRemembered ==
    [][(result'.op = "process_player_input" /\ result'.hit /\ clock' = clock) =>
           LET before == npcs[result'.npc_name].memory
               after == npcs'[result'.npc_name].memory
           IN /\ OneRecordAppended(result'.player_input, result'.npc_name,
                                   result'.ret.npc_response)
              /\ IF GenerationFailed(result'.outcome)
                 THEN /\ after.memories = before.memories
                      /\ after.player_interactions = before.player_interactions
                 ELSE /\ Len(after.memories) = Len(before.memories) + 1
                      /\ after.player_interactions =
                             before.player_interactions + 1]_vars

\* C26: in every reachable state every character of the roster has a memory
\* in the Store's memory mapping, over add_npc, remove_npc,
\* process_player_input, trigger_npc_action and load_game.
C26_RosterHasMemories == DOMAIN npcs \subseteq DOMAIN npc_memories

\* C27: in every reachable state the settings of the Coordinator and the
\* settings of the Store are the same settings, so that what set_settings
\* changes is what save_game writes and what load_game restores is what the
\* next generation call uses.
C27_OneSettings == settings = sm_settings

====
